---- MODULE Spec2Model ----
(***************************************************************************)
(* Storage layout of Solidity structs: the type-expression parser          *)
(* (SolType::from_str), the struct registry and the slot-packing size      *)
(* computation (SolType::size with its inner update_state fold) of         *)
(* src/main.rs, modelled as a state machine.                                *)
(*                                                                         *)
(* A text is a sequence of tokens.  A token is a maximal run of word       *)
(* characters (a keyword, a name, a number), one punctuation mark, the     *)
(* arrow "=>" or one blank " ".  No two word tokens are adjacent in a      *)
(* text, so a token is exactly what the regex class \w+ can match.         *)
(***************************************************************************)
EXTENDS Integers, Sequences, FiniteSets, TLC

(* ------------------------------ bounds --------------------------------- *)
\* longest struct body (number of fields) drawn as input
MaxFields == 3
\* deepest call stack the process can hold before it overflows
MaxDepth == 4

(* ------------------------------ SolType -------------------------------- *)
Uint(w) == [tag |-> "Uint", w |-> w]
SolInt(w) == [tag |-> "Int", w |-> w]
Address == [tag |-> "Address"]
Bool == [tag |-> "Bool"]
Bytes(n) == [tag |-> "Bytes", n |-> n]
BytesArbitrary == [tag |-> "BytesArbitrary"]
Custom(st) == [tag |-> "Custom", st |-> st]
Custom2(name) == [tag |-> "Custom2", name |-> name]
Mapping(k, v) == [tag |-> "Mapping", key |-> k, value |-> v]
Array(e) == [tag |-> "Array", elem |-> e]
FixedArray(e, len) == [tag |-> "FixedArray", elem |-> e, len |-> len]

\* a struct: its name and the types of its fields in declaration order
SolStruct(name, fields) == [name |-> name, fields |-> fields]

\* the value types of update_state's first match arm
ValueTags == {"Uint", "Int", "Address", "Bool", "Bytes"}
\* the types that take the next full slot
SlotTags == {"Mapping", "Array", "BytesArbitrary"}

(* ------------------------------ results -------------------------------- *)
Ok(v) == [ok |-> TRUE, v |-> v]
Err(kind, what) == [ok |-> FALSE, kind |-> kind, what |-> what]

(* ------------------------------ from_str ------------------------------- *)
\* the keyword arms of from_str
Keywords ==
    "uint" :> Uint(256) @@ "int" :> SolInt(256) @@ "address" :> Address
    @@ "bool" :> Bool @@ "bytes" :> BytesArbitrary
    @@ "bytes1" :> Bytes(1) @@ "bytes2" :> Bytes(2) @@ "bytes3" :> Bytes(3)
    @@ "bytes4" :> Bytes(4) @@ "bytes5" :> Bytes(5) @@ "bytes6" :> Bytes(6)
    @@ "bytes7" :> Bytes(7) @@ "bytes8" :> Bytes(8) @@ "bytes9" :> Bytes(9)
    @@ "bytes10" :> Bytes(10) @@ "bytes11" :> Bytes(11)
    @@ "bytes12" :> Bytes(12) @@ "bytes13" :> Bytes(13)
    @@ "bytes14" :> Bytes(14) @@ "bytes15" :> Bytes(15)
    @@ "bytes16" :> Bytes(16) @@ "bytes17" :> Bytes(17)
    @@ "bytes18" :> Bytes(18) @@ "bytes19" :> Bytes(19)
    @@ "bytes20" :> Bytes(20) @@ "bytes21" :> Bytes(21)
    @@ "bytes22" :> Bytes(22) @@ "bytes23" :> Bytes(23)
    @@ "bytes24" :> Bytes(24) @@ "bytes25" :> Bytes(25)
    @@ "bytes26" :> Bytes(26) @@ "bytes27" :> Bytes(27)
    @@ "bytes28" :> Bytes(28) @@ "bytes29" :> Bytes(29)
    @@ "bytes30" :> Bytes(30) @@ "bytes31" :> Bytes(31)
    @@ "bytes32" :> Bytes(32) @@ "uint8" :> Uint(8) @@ "uint16" :> Uint(16)
    @@ "uint24" :> Uint(24) @@ "uint32" :> Uint(32) @@ "uint40" :> Uint(40)
    @@ "uint48" :> Uint(48) @@ "uint56" :> Uint(56) @@ "uint64" :> Uint(64)
    @@ "uint72" :> Uint(72) @@ "uint80" :> Uint(80) @@ "uint88" :> Uint(88)
    @@ "uint96" :> Uint(96) @@ "uint104" :> Uint(104)
    @@ "uint112" :> Uint(112) @@ "uint120" :> Uint(120)
    @@ "uint128" :> Uint(128) @@ "uint136" :> Uint(136)
    @@ "uint144" :> Uint(144) @@ "uint152" :> Uint(152)
    @@ "uint160" :> Uint(160) @@ "uint168" :> Uint(168)
    @@ "uint176" :> Uint(176) @@ "uint184" :> Uint(184)
    @@ "uint192" :> Uint(192) @@ "uint200" :> Uint(200)
    @@ "uint208" :> Uint(208) @@ "uint216" :> Uint(216)
    @@ "uint224" :> Uint(224) @@ "uint232" :> Uint(232)
    @@ "uint240" :> Uint(240) @@ "uint248" :> Uint(248)
    @@ "uint256" :> Uint(256) @@ "int8" :> SolInt(8) @@ "int16" :> SolInt(16)
    @@ "int24" :> SolInt(24) @@ "int32" :> SolInt(32) @@ "int40" :> SolInt(40)
    @@ "int48" :> SolInt(48) @@ "int56" :> SolInt(56) @@ "int64" :> SolInt(64)
    @@ "int72" :> SolInt(72) @@ "int80" :> SolInt(80) @@ "int88" :> SolInt(88)
    @@ "int96" :> SolInt(96) @@ "int104" :> SolInt(104) @@ "int112" :> SolInt(112)
    @@ "int120" :> SolInt(120) @@ "int128" :> SolInt(128) @@ "int136" :> SolInt(136)
    @@ "int144" :> SolInt(144) @@ "int152" :> SolInt(152) @@ "int160" :> SolInt(160)
    @@ "int168" :> SolInt(168) @@ "int176" :> SolInt(176) @@ "int184" :> SolInt(184)
    @@ "int192" :> SolInt(192) @@ "int200" :> SolInt(200) @@ "int208" :> SolInt(208)
    @@ "int216" :> SolInt(216) @@ "int224" :> SolInt(224) @@ "int232" :> SolInt(232)
    @@ "int240" :> SolInt(240) @@ "int248" :> SolInt(248) @@ "int256" :> SolInt(256)

\* str::parse::<u64> on the digit strings the inputs use
NumVal ==
    "0" :> 0 @@ "1" :> 1 @@ "2" :> 2 @@ "3" :> 3 @@ "4" :> 4 @@ "5" :> 5
    @@ "6" :> 6 @@ "7" :> 7 @@ "8" :> 8 @@ "9" :> 9

Punct == {"[", "]", "(", ")", "=>", " ", ""}
\* \w+ : a whole word token
IsWord(tok) == tok \notin Punct
\* \d+ : a word token made of digits only
IsDigits(tok) == tok \in DOMAIN NumVal

\* the token at position i, "" past either end
At(s, i) == IF i \in 1..Len(s) THEN s[i] ELSE ""

\* \s* from position i: the first position at or after i that is not a blank
SkipWs(s, i) ==
    IF i > Len(s) THEN i
    ELSE CHOOSE j \in i..(Len(s) + 1) :
             /\ At(s, j) # " "
             /\ \A k \in i..(j - 1) : s[k] = " "

\* str::trim
Trim(s) ==
    IF \A i \in 1..Len(s) : s[i] = " " THEN <<>>
    ELSE LET a == CHOOSE i \in 1..Len(s) :
                      s[i] # " " /\ \A k \in 1..(i - 1) : s[k] = " "
             b == CHOOSE i \in 1..Len(s) :
                      s[i] # " " /\ \A k \in (i + 1)..Len(s) : s[k] = " "
         IN SubSeq(s, a, b)

\* s.replace("[]", ""): every "[" directly followed by "]" is removed
RECURSIVE RemoveEmptyBrackets(_)
RemoveEmptyBrackets(s) ==
    IF s = <<>> THEN <<>>
    ELSE IF Len(s) >= 2 /\ s[1] = "[" /\ s[2] = "]"
         THEN RemoveEmptyBrackets(SubSeq(s, 3, Len(s)))
         ELSE <<s[1]>> \o RemoveEmptyBrackets(Tail(s))

\* n times \s* and one token, from position p: the positions of the tokens
RECURSIVE Skips(_, _, _)
Skips(s, p, n) ==
    IF n = 0 THEN <<>>
    ELSE <<SkipWs(s, p)>> \o Skips(s, SkipWs(s, p) + 1, n - 1)

\* Regex::captures: the leftmost of the positions at which the regex
\* matches, 0 if it matches nowhere
Leftmost(hits) ==
    IF hits = {} THEN 0 ELSE CHOOSE p \in hits : \A q \in hits : p <= q

\* FIXED_ARRAY_REGEX  \s*(?<type>\w+)\s*\[\s*(?<size>\d+)\s*\]\s*
\* g: the positions of the word, the "[", the digits and the "]"
FixedArrayShape(s, g) ==
    /\ IsWord(At(s, g[1])) /\ At(s, g[2]) = "["
    /\ IsDigits(At(s, g[3])) /\ At(s, g[4]) = "]"
FixedArrayMatchesAt(s, p) == FixedArrayShape(s, Skips(s, p, 4))
FixedArrayGroups(s, g) == Ok([type |-> <<s[g[1]]>>, size |-> s[g[3]]])
FixedArrayCapturesAt(s, p) ==
    IF p = 0 THEN Err("nomatch", s)
    ELSE FixedArrayGroups(s, Skips(s, p, 4))
FixedArrayCaptures(s) ==
    FixedArrayCapturesAt(
        s, Leftmost({p \in 1..Len(s) : FixedArrayMatchesAt(s, p)}))

\* MAPPING_REGEX
\* \s*mapping\s*\(\s*(?<key_type>\w+)\s*=>\s*(?<value_type>\w+(?:\[\d*\])?)\s*\)
\* the end of the value group whose word is at v: the optional [\d*] follows
\* the word directly
ValueEnd(s, v) ==
    IF At(s, v + 1) = "[" /\ At(s, v + 2) = "]" THEN v + 2
    ELSE IF At(s, v + 1) = "[" /\ IsDigits(At(s, v + 2)) /\ At(s, v + 3) = "]"
         THEN v + 3
         ELSE v
\* g: the positions of "mapping", "(", the key word, "=>" and the value word
MappingShape(s, g) ==
    /\ At(s, g[1]) = "mapping" /\ At(s, g[2]) = "("
    /\ IsWord(At(s, g[3])) /\ At(s, g[4]) = "=>"
    /\ IsWord(At(s, g[5]))
    /\ At(s, SkipWs(s, ValueEnd(s, g[5]) + 1)) = ")"
MappingMatchesAt(s, p) == MappingShape(s, Skips(s, p, 5))
MappingGroups(s, g) ==
    Ok([key_type |-> <<s[g[3]]>>,
        value_type |-> SubSeq(s, g[5], ValueEnd(s, g[5]))])
MappingCapturesAt(s, p) ==
    IF p = 0 THEN Err("nomatch", s)
    ELSE MappingGroups(s, Skips(s, p, 5))
MappingCaptures(s) ==
    MappingCapturesAt(s, Leftmost({p \in 1..Len(s) : MappingMatchesAt(s, p)}))

\* the mapping arm once the key and the value are parsed
mapping_of(captures, key, val) ==
    IF ~key.ok THEN Err("error parsing", captures.v.key_type)
    ELSE IF ~val.ok THEN Err("error parsing", captures.v.value_type)
    ELSE Ok(Mapping(key.v, val.v))

\* the dynamic array arm once the element type is parsed
array_of(inner_type) ==
    IF ~inner_type.ok THEN inner_type ELSE Ok(Array(inner_type.v))

\* the fixed array arm once the element type is parsed
fixed_array_of(captures, value_type) ==
    IF ~value_type.ok THEN Err("error parsing", captures.v.type)
    ELSE Ok(FixedArray(value_type.v, NumVal[captures.v.size]))

RECURSIVE from_str(_)
mapping_arm(s, captures) ==
    IF ~captures.ok THEN Err("mapping didnt match", s)
    ELSE mapping_of(captures, from_str(captures.v.key_type),
                    from_str(captures.v.value_type))

fixed_array_arm_of(s, captures) ==
    IF ~captures.ok THEN Err("fixed array didnt match", s)
    ELSE fixed_array_of(captures, from_str(captures.v.type))

\* the arms of from_str's match on s = str.trim()
from_trimmed(s) ==
    IF Len(s) = 1 /\ s[1] \in DOMAIN Keywords THEN Ok(Keywords[s[1]])
    ELSE IF At(s, 1) = "mapping" THEN mapping_arm(s, MappingCaptures(s))
    ELSE IF Len(s) >= 2 /\ s[Len(s) - 1] = "[" /\ s[Len(s)] = "]"
         THEN array_of(from_str(RemoveEmptyBrackets(s)))
    ELSE IF (\E i \in 1..Len(s) : s[i] = "[")
            /\ (\E i \in 1..Len(s) : s[i] = "]")
         THEN fixed_array_arm_of(s, FixedArrayCaptures(s))
    ELSE Ok(Custom2(s))

from_str(str) == from_trimmed(Trim(str))

\* parse_struct on the field declarations of one struct body: src is the
\* sequence of the fields' type texts, in declaration order
RECURSIVE parse_fields(_)
fields_of(typ, rest) ==
    IF ~typ.ok THEN typ
    ELSE IF ~rest.ok THEN rest ELSE Ok(<<typ.v>> \o rest.v)
parse_fields(src) ==
    IF src = <<>> THEN Ok(<<>>)
    ELSE fields_of(from_str(Head(src)), parse_fields(Tail(src)))

struct_of(name, fields) ==
    IF ~fields.ok THEN fields ELSE Ok(SolStruct(name, fields.v))
parse_struct(name, src) == struct_of(name, parse_fields(src))

(* ------------------------------ inputs --------------------------------- *)
\* the text T[N]
Bracket(T, N) == T \o <<"[", N, "]">>

\* the struct definitions the registry is built from
StructSrc ==
    [ StructX |-> <<(<<"uint96">>), <<"bool">>, <<"bool">>, <<"bool">>,
                    <<"bool">>>>,
      Outer |-> <<(<<"uint8">>), <<"StructX">>, <<"uint8">>>>,
      Empty |-> <<>>,
      Loop |-> <<(<<"uint8">>), <<"Loop">>>>,
      Ping |-> <<(<<"Pong">>)>>,
      Pong |-> <<(<<"bool">>), <<"Ping">>>>,
      Dangling |-> <<(<<"address">>), <<"Missing">>>> ]

\* main: the registry, every struct of the input parsed before any size
\* is computed
all_structs == [n \in DOMAIN StructSrc |-> parse_struct(n, StructSrc[n]).v]

\* (a lookup that answers an unknown name with an empty struct)
get_or_default(st_name, msg) ==
    IF Len(st_name) = 1 /\ st_name[1] \in DOMAIN all_structs
    THEN Ok(all_structs[st_name[1]])
    ELSE Ok(SolStruct("", <<>>))

\* all_structs.get(st_name).ok_or_eyre(msg): the struct of that name, or the
\* error that names it
get(st_name, msg) ==
    IF Len(st_name) = 1 /\ st_name[1] \in DOMAIN all_structs
    THEN Ok(all_structs[st_name[1]])
    ELSE Err(msg, st_name)

\* the field type texts struct bodies are drawn from
FieldTexts ==
    { <<"uint8">>, <<"uint128">>, <<"address">>, <<"Missing", "[", "]">>,
      <<"mapping", "(", "uint8", "=>", "Missing", ")">>,
      Bracket(<<"uint128">>, "3"), Bracket(<<"address">>, "2"),
      Bracket(<<"StructX">>, "2"),
      <<"StructX">>, <<"Missing">>, <<"Loop">> }

RECURSIVE SeqsUpTo(_, _)
SeqsUpTo(S, n) ==
    IF n = 0 THEN {<<>>}
    ELSE LET shorter == SeqsUpTo(S, n - 1) IN
         shorter \cup {Append(q, x) : q \in shorter, x \in S}

\* struct bodies whose last field is a fixed array of a value type
ArrayBodies ==
    LET arrays == {Bracket(<<T>>, N) :
                      T \in {"uint8", "uint96", "uint128", "uint256", "bool",
                              "address", "bytes20"},
                      N \in {"0", "1", "2", "3", "4"}}
    IN {<<a>> : a \in arrays} \cup {<<(<<"uint8">>), a>> : a \in arrays}

\* struct bodies of the other value types and of bytes
OtherBodies ==
    LET others == {<<"bool">>, <<"uint256">>, <<"bytes32">>, <<"int64">>,
                   <<"bytes">>, <<"uint8", "[", "]">>}
    IN {<<a>> : a \in others} \cup {<<a, b>> : a \in others, b \in others}
       \cup {<<(<<"uint128">>), a, b>> : a \in others, b \in others}

StructBodies ==
    SeqsUpTo(FieldTexts, MaxFields) \cup ArrayBodies \cup OtherBodies

\* the texts parsed and sized on their own
ElemTexts ==
    { <<"uint8">>, <<"uint96">>, <<"uint256">>, <<"int128">>, <<"bool">>,
      <<"address">>, <<"bytes">>, <<"bytes32">>, <<"bytes7">>, <<"uint">>,
      <<"StructX">>, <<"Outer">>, <<"Empty">>, <<"Missing">>, <<"Ping">>,
      <<"Dangling">>,
      <<"uint8", "[", "]">>, Bracket(<<"uint8">>, "2"),
      <<"mapping", "(", "uint8", "=>", "uint8", ")">>,
      <<"mapping", "(", "Missing", "=>", "uint8", "[", "]", ")">>,
      <<" ", "uint8", " ">> }
Counts == {"0", "1", "2", "3"}
TypeTexts ==
    ElemTexts \cup {Bracket(T, N) : T \in ElemTexts, N \in Counts}
    \cup {<<>>, <<"[", "3", "]">>, <<"uint8", "[", "]", "[", "]">>, <<"uint8", "[", "x", "]">>,
          <<"uint8", " ", "[", " ", "2", " ", "]">>, <<"mapping", "(", ")">>}

(* ------------------------------ size ----------------------------------- *)
snap_to_upper_256(size) ==
    LET over == size % 256 IN
    IF over = 0 THEN size ELSE size + 256 - over

\* SolType::size on the types whose size does not depend on the registry
StaticSize(typ) ==
    CASE typ.tag = "Uint" -> typ.w
      [] typ.tag = "Int" -> typ.w
      [] typ.tag = "Address" -> 20 * 8
      [] typ.tag = "Bool" -> 1
      [] typ.tag = "Bytes" -> typ.n * 8
      [] typ.tag = "BytesArbitrary" -> 256
      [] typ.tag = "Mapping" -> 256
      [] typ.tag = "Array" -> 256

\* SolType::size, arm FixedArray: the size of the array from its element's
fixed_array_size(size, len) ==
    LET remainder == 256 - (size % 256) IN (size + remainder) * len

\* main: the slot count printed for a struct of the given bit size
bytes(size) == snap_to_upper_256(size) \div 256

(* the arms of update_state on the fold's state, f.size and                *)
(* f.current_word_bits_allocated                                           *)
\* (a field that exactly fills the slot is moved to the next)
value_arm_strict(f, bits_needed) ==
    LET remainder_bits == 256 - f.current_word_bits_allocated IN
    IF bits_needed < remainder_bits
    THEN [f EXCEPT !.current_word_bits_allocated = @ + bits_needed,
                   !.size = @ + bits_needed]
    ELSE [f EXCEPT !.current_word_bits_allocated = 0 + bits_needed,
                   !.size = @ + remainder_bits + bits_needed]

\* (the bits skipped in the slot left behind are not counted)
value_arm_no_skip(f, bits_needed) ==
    LET remainder_bits == 256 - f.current_word_bits_allocated IN
    IF bits_needed <= remainder_bits
    THEN [f EXCEPT !.current_word_bits_allocated = @ + bits_needed,
                   !.size = @ + bits_needed]
    ELSE [f EXCEPT !.current_word_bits_allocated = 0 + bits_needed,
                   !.size = @ + bits_needed]

value_arm(f, bits_needed) ==
    LET remainder_bits == 256 - f.current_word_bits_allocated IN
    IF bits_needed <= remainder_bits
    THEN [f EXCEPT !.current_word_bits_allocated = @ + bits_needed,
                   !.size = @ + bits_needed]
    ELSE [f EXCEPT !.current_word_bits_allocated = 0 + bits_needed,
                   !.size = @ + remainder_bits + bits_needed]

\* (the array keeps packing into the slot in use)
fixed_array_arm_no_reset(f, sol_type, len) ==
    [f EXCEPT !.size = snap_to_upper_256(@),
              !.loops = Append(@, [elem |-> sol_type, rem |-> len])]

fixed_array_arm(f, sol_type, len) ==
    [f EXCEPT !.current_word_bits_allocated = 0,
              !.size = snap_to_upper_256(@),
              !.loops = Append(@, [elem |-> sol_type, rem |-> len])]

\* (the slot is added without the slot boundary)
slot_arm_unaligned(f) ==
    [f EXCEPT !.current_word_bits_allocated = 0,
              !.size = @ + 256]

slot_arm(f) ==
    [f EXCEPT !.current_word_bits_allocated = 0,
              !.size = snap_to_upper_256(@) + 256]

\* the Custom arm up to the call of typ.size
custom_arm_enter(f) ==
    [f EXCEPT !.current_word_bits_allocated = 0,
              !.size = snap_to_upper_256(@)]

\* (the return without the second slot boundary)
custom_arm_exit_unaligned(f, inner) ==
    [f EXCEPT !.size = @ + inner]

\* the Custom arm from the return of typ.size
custom_arm_exit(f, inner) ==
    [f EXCEPT !.size = snap_to_upper_256(@ + inner)]

(* ------------------------------ frames --------------------------------- *)
\* an activation of SolType::size on a Custom: the fold over the fields.
\* idx is the position of the for loop over sol_struct.fields, loops the
\* active for loops of update_state's FixedArray arm, innermost last
FoldFrame(st) ==
    [kind |-> "fold", fields |-> st.fields, idx |-> 1, size |-> 0,
     current_word_bits_allocated |-> 0, loops |-> <<>>]

\* an activation of SolType::size on a FixedArray, waiting for its element's
FixedFrame(len) == [kind |-> "fixed", len |-> len]

Front(s) == SubSeq(s, 1, Len(s) - 1)
Last(s) == s[Len(s)]

\* leave the for loops that have no iteration left
RECURSIVE PopDone(_)
PopDone(loops) ==
    IF loops # <<>> /\ Last(loops).rem = 0 THEN PopDone(Front(loops))
    ELSE loops

HasNext(f) == f.loops # <<>> \/ f.idx <= Len(f.fields)
\* the type the next call of update_state is made on
NextTyp(f) == IF f.loops # <<>> THEN Last(f.loops).elem ELSE f.fields[f.idx]
\* the loop that makes the call moves on
Advance(f) ==
    IF f.loops # <<>>
    THEN [f EXCEPT !.loops[Len(f.loops)].rem = @ - 1]
    ELSE [f EXCEPT !.idx = @ + 1]
Settle(f) == [f EXCEPT !.loops = PopDone(@)]

Config(p, stk, res, e) == [pc |-> p, stack |-> stk, result |-> res, err |-> e]
NoErr == Err("", <<>>)

\* a call of size returns v to the activation below it
RECURSIVE Deliver(_, _)
Deliver(stk, v) ==
    IF stk = <<>> THEN Config("done", <<>>, v, NoErr)
    ELSE IF Last(stk).kind = "fixed"
         THEN Deliver(Front(stk), fixed_array_size(v, Last(stk).len))
         ELSE Config("run", Append(Front(stk), custom_arm_exit(Last(stk), v)),
                     0, NoErr)

\* the call typ.size(all_structs) made with the activations stk below it
RECURSIVE Call(_, _)
\* the Custom2 arm once the registry is asked
call_struct(st, stk) ==
    IF st.ok THEN Call(Custom(st.v), stk) ELSE Config("error", <<>>, 0, st)

Call(typ, stk) ==
    IF typ.tag \in ValueTags \cup SlotTags THEN Deliver(stk, StaticSize(typ))
    ELSE IF typ.tag = "Custom2"
         THEN call_struct(get(typ.name, "unknown struct"), stk)
    ELSE IF Len(stk) >= MaxDepth THEN Config("overflow", <<>>, 0, NoErr)
    ELSE IF typ.tag = "Custom"
         THEN Config("run", Append(stk, FoldFrame(typ.st)), 0, NoErr)
    ELSE Call(typ.elem, Append(stk, FixedFrame(typ.len)))

(* ------------------------------ state ---------------------------------- *)
VARIABLES
    mode,    \* "main": a struct body is parsed and sized as main does;
             \* "size": one type text is parsed and size is called on it
    src,     \* the input: the fields' type texts, or the one type text
    parsed,  \* what the parser returned for src
    pc,      \* "parse", "run", "done", "error", or "overflow" once the
             \* call stack is exhausted and the process is killed
    stack,   \* the activations of SolType::size, outermost first
    result,  \* the bit size returned by the outermost call
    err      \* the error returned

vars == <<mode, src, parsed, pc, stack, result, err>>

Top == stack[Len(stack)]

Init ==
    /\ \/ mode = "main" /\ src \in StructBodies
       \/ mode = "size" /\ src \in TypeTexts
    /\ parsed = NoErr
    /\ pc = "parse"
    /\ stack = <<>>
    /\ result = 0
    /\ err = NoErr

Apply(cfg) ==
    /\ pc' = cfg.pc
    /\ stack' = cfg.stack
    /\ result' = cfg.result
    /\ err' = cfg.err

\* main: parse_struct, then SolType::Custom(st).size(&structs)
ParseStruct ==
    /\ pc = "parse" /\ mode = "main"
    /\ LET st == parse_struct("Input", src) IN
       /\ parsed' = st
       /\ IF st.ok THEN Apply(Call(Custom(st.v), <<>>))
          ELSE Apply(Config("error", <<>>, 0, st))
    /\ UNCHANGED <<mode, src>>

\* text.parse::<SolType>()?.size(&structs)
ParseType ==
    /\ pc = "parse" /\ mode = "size"
    /\ LET typ == from_str(src) IN
       /\ parsed' = typ
       /\ IF typ.ok THEN Apply(Call(typ.v, <<>>))
          ELSE Apply(Config("error", <<>>, 0, typ))
    /\ UNCHANGED <<mode, src>>

\* the top activation after update_state ran the arm that maps f to g
SetTop(g) == [stack EXCEPT ![Len(stack)] = Settle(g)]

\* update_state on a value type
ValueField ==
    /\ pc = "run" /\ HasNext(Top)
    /\ NextTyp(Top).tag \in ValueTags
    /\ stack' = SetTop(value_arm(Advance(Top), StaticSize(NextTyp(Top))))
    /\ UNCHANGED <<mode, src, parsed, pc, result, err>>

\* update_state on a fixed array: the slot boundary, then the for loop
FixedArrayField ==
    /\ pc = "run" /\ HasNext(Top)
    /\ NextTyp(Top).tag = "FixedArray"
    /\ stack' = SetTop(fixed_array_arm(Advance(Top), NextTyp(Top).elem,
                                       NextTyp(Top).len))
    /\ UNCHANGED <<mode, src, parsed, pc, result, err>>

\* update_state on a mapping, a dynamic array or bytes
SlotField ==
    /\ pc = "run" /\ HasNext(Top)
    /\ NextTyp(Top).tag \in SlotTags
    /\ stack' = SetTop(slot_arm(Advance(Top)))
    /\ UNCHANGED <<mode, src, parsed, pc, result, err>>

\* update_state's lookup of the struct a field names; an inline struct is
\* at hand
field_struct(typ) ==
    IF typ.tag = "Custom" THEN Ok(typ.st)
    ELSE get(typ.name, "struct not found")

\* update_state on a struct, inline or a name the registry holds: the slot
\* boundary, then the call of size on the struct
CustomField ==
    /\ pc = "run" /\ HasNext(Top)
    /\ NextTyp(Top).tag \in {"Custom", "Custom2"}
    /\ field_struct(NextTyp(Top)).ok
    /\ Apply(Call(Custom(field_struct(NextTyp(Top)).v),
                  SetTop(custom_arm_enter(Advance(Top)))))
    /\ UNCHANGED <<mode, src, parsed>>

\* update_state on a name the registry does not hold
UnresolvedField ==
    /\ pc = "run" /\ HasNext(Top)
    /\ NextTyp(Top).tag \in {"Custom", "Custom2"}
    /\ ~field_struct(NextTyp(Top)).ok
    /\ Apply(Config("error", <<>>, 0, field_struct(NextTyp(Top))))
    /\ UNCHANGED <<mode, src, parsed>>

\* the fold is over: size returns the struct's bit size to its caller
Return ==
    /\ pc = "run" /\ ~HasNext(Top)
    /\ Apply(Deliver(Front(stack), Top.size))
    /\ UNCHANGED <<mode, src, parsed>>

Next ==
    \/ ParseStruct
    \/ ParseType
    \/ ValueField
    \/ FixedArrayField
    \/ SlotField
    \/ CustomField
    \/ UnresolvedField
    \/ Return

Spec == Init /\ [][Next]_vars

(* ------------------------------ properties ----------------------------- *)
\* y is x rounded up to the next multiple of 256
IsRoundUp256(x, y) == y % 256 = 0 /\ y >= x /\ y < x + 256

\* the fields of the struct main parsed, and its texts
InputFields == parsed.v.fields
Sized(body) == mode = "main" /\ src = body /\ pc = "done"

\* the next call of update_state is on a type of one of these tags
Meets(tags) == pc = "run" /\ HasNext(Top) /\ NextTyp(Top).tag \in tags
\* the name is not a key of the registry
Unregistered(name) == ~(Len(name) = 1 /\ name[1] \in DOMAIN StructSrc)

U128 == <<"uint128">>
NestedBody == <<(<<"uint8">>), <<"StructX">>, <<"uint8">>>>

\* C1: a value-type field of width need, met in state (total_bits,
\* slot_bits_used), adds need to both when need <= 256 - slot_bits_used, and
\* otherwise adds (256 - slot_bits_used) + need to total_bits and sets
\* slot_bits_used to need; two 128-bit fields take 256 bits (1 slot), three
\* take 384 bits (2 slots) and the third starts at bit 256.
C1_ValueField ==
    /\ [][Meets(ValueTags) =>
            LET need == StaticSize(NextTyp(Top))
                total_bits == Top.size
                slot_bits_used == Top.current_word_bits_allocated
            IN /\ Len(stack') = Len(stack)
               /\ IF need <= 256 - slot_bits_used
                  THEN /\ Top'.size = total_bits + need
                       /\ Top'.current_word_bits_allocated
                              = slot_bits_used + need
                  ELSE /\ Top'.size = total_bits + (256 - slot_bits_used) + need
                       /\ Top'.current_word_bits_allocated = need]_vars
    /\ [](/\ Sized(<<U128, U128>>) => result = 256 /\ bytes(result) = 1
          /\ Sized(<<U128, U128, U128>>) => result = 384 /\ bytes(result) = 2
          /\ (mode = "main" /\ src = <<U128, U128, U128>> /\ pc = "run"
              /\ Top.idx = 4) => Top.size - 128 = 256)

\* three 128-bit fields are sized: the third did not fit the slot of the
\* first two
C1_Witness == Sized(<<U128, U128, U128>>) /\ result = 384

\* C2: a field that is a nested struct starts on a slot boundary whatever
\* room the current slot has left, adds the inner struct's size computed from
\* the fresh state (0, 0), and leaves total_bits a multiple of 256 with
\* slot_bits_used = 0; { uint8 a; StructX b; uint8 c; } with StructX of 100
\* bits has a in slot 0, b in slot 1 and c in slot 2: 520 bits, 3 slots.
C2_NestedStruct ==
    /\ [][(Meets({"Custom", "Custom2"}) /\ pc' = "run") =>
            /\ Len(stack') = Len(stack) + 1
            /\ IsRoundUp256(Top.size, stack'[Len(stack)].size)
            /\ stack'[Len(stack)].current_word_bits_allocated = 0
            /\ Top'.size = 0 /\ Top'.current_word_bits_allocated = 0
            /\ Top'.idx = 1 /\ Top'.loops = <<>>]_vars
    /\ [][(pc = "run" /\ ~HasNext(Top) /\ Len(stack) >= 2
           /\ stack[Len(stack) - 1].kind = "fold") =>
            /\ Len(stack') = Len(stack) - 1
            /\ stack[Len(stack) - 1].size % 256 = 0
            /\ IsRoundUp256(stack[Len(stack) - 1].size + Top.size, Top'.size)
            /\ Top'.current_word_bits_allocated = 0]_vars
    /\ [](/\ Sized(NestedBody) => result = 520 /\ bytes(result) = 3
          /\ (mode = "main" /\ src = NestedBody /\ pc = "run") =>
              /\ (Len(stack) = 1 /\ Top.idx = 2) => Top.size = 8
              /\ Len(stack) = 2 => stack[1].size = 256
              /\ (Len(stack) = 2 /\ ~HasNext(Top)) => Top.size = 100
              /\ (Len(stack) = 1 /\ Top.idx = 3) => Top.size = 512
              /\ (Len(stack) = 1 /\ Top.idx = 4) => Top.size = 512 + 8)

\* the struct of the example is sized
C2_Witness == Sized(NestedBody) /\ result = 520

\* C3: a mapping, a dynamic array or bytes rounds total_bits up to a
\* multiple of 256, resets slot_bits_used and adds exactly 256 bits whatever
\* type it contains; a struct whose only field is a dynamic array has 256
\* bits (1 slot).
C3_SlotField ==
    /\ [][Meets(SlotTags) =>
            /\ Len(stack') = Len(stack)
            /\ IsRoundUp256(Top.size, Top'.size - 256)
            /\ Top'.current_word_bits_allocated = 0]_vars
    /\ []((mode = "main" /\ pc = "done" /\ Len(src) = 1
           /\ InputFields[1].tag = "Array")
          => result = 256 /\ bytes(result) = 1)

\* a struct of one dynamic array, whose element is an unregistered name, is
\* sized
C3_Witness == Sized(<<(<<"Missing", "[", "]">>)>>) /\ result = 256

\* the bits N elements of width w take when packed from a slot boundary:
\* 256 DIV w elements to a slot
Packed(w, N) ==
    IF N = 0 THEN 0
    ELSE ((N - 1) \div (256 \div w)) * 256 + (((N - 1) % (256 \div w)) + 1) * w

\* C4: a fixed array E[N] rounds total_bits up to a multiple of 256, sets
\* slot_bits_used to 0 and then takes the transition of E N times on that
\* same state, so elements of a value type pack against each other
\* (uint128[3] adds 384 bits) and struct elements are aligned one by one.
C4_FixedArrayField ==
    /\ [][Meets({"FixedArray"}) =>
            /\ Len(stack') = Len(stack)
            /\ IsRoundUp256(Top.size, Top'.size)
            /\ Top'.current_word_bits_allocated = 0]_vars
    /\ [](\A i \in 1..2 :
            (mode = "main" /\ pc = "done" /\ Len(src) = i
             /\ InputFields[i].tag = "FixedArray"
             /\ InputFields[i].elem.tag \in ValueTags
             /\ (i = 2 => InputFields[1].tag \in ValueTags))
            => result = (i - 1) * 256
                        + Packed(StaticSize(InputFields[i].elem),
                                 InputFields[i].len))
    /\ [](/\ Sized(<<Bracket(U128, "3")>>) => result = 384
          /\ Sized(<<(<<"uint8">>), Bracket(U128, "3")>>) => result = 256 + 384
          /\ Sized(<<Bracket(<<"StructX">>, "2")>>) => result = 512)

\* uint128[3] after a uint8 is sized
C4_Witness == Sized(<<(<<"uint8">>), Bracket(U128, "3")>>) /\ result = 640

C6_StandaloneFixedArray ==
    (mode = "size" /\ pc = "done" /\ parsed.v.tag = "FixedArray"
     /\ parsed.v.elem.tag \in ValueTags \cup SlotTags)
    => \E unit \in 0..512 :
          /\ IsRoundUp256(StaticSize(parsed.v.elem), unit)
          /\ result = unit * parsed.v.len

\* C7: sizing a struct that refers to itself ends with a reported error; the
\* call stack is never exhausted.
C7_NoStackOverflow == pc # "overflow"

\* C8: for every text T the parser accepts and every count N, T[N] parses to
\* the fixed array of parse(T) and N.
C8_RoundTrip ==
    \A T \in ElemTexts, N \in Counts :
        (mode = "size" /\ pc # "parse" /\ src = Bracket(T, N) /\ from_str(T).ok)
        => parsed = Ok(FixedArray(from_str(T).v, NumVal[N]))

\* C9: the item that follows a struct or an array in a struct starts at a
\* multiple of 256 bits.
C9_AfterStructOrArray ==
    [][(Meets(ValueTags) /\ Top.loops = <<>> /\ Top.idx > 1
        /\ Top.fields[Top.idx - 1].tag
               \in {"FixedArray", "Array", "Custom", "Custom2"})
       => (Top'.size - StaticSize(NextTyp(Top))) % 256 = 0]_vars

\* C10: in every state of the fold, for every activation, slot_bits_used is
\* in 0..256 and total_bits = slot_bits_used modulo 256; no value-type field
\* is placed across a slot boundary.
C10_FoldInvariant ==
    /\ [](pc = "run" =>
            \A d \in 1..Len(stack) :
                stack[d].kind = "fold" =>
                    /\ stack[d].current_word_bits_allocated \in 0..256
                    /\ stack[d].size % 256
                           = stack[d].current_word_bits_allocated % 256)
    /\ [][Meets(ValueTags) =>
            (Top'.size - StaticSize(NextTyp(Top))) \div 256
                = (Top'.size - 1) \div 256]_vars

\* a slot is full, and the next value-type field has to open a new one
C10_Witness ==
    /\ pc = "run" /\ Top.current_word_bits_allocated = 256
    /\ HasNext(Top) /\ NextTyp(Top).tag \in ValueTags

====
